---- MODULE Spec2Model ----
(***************************************************************************)
(* Model of the ai-api service: the tool-augmented chat turn               *)
(* (main.py, chat_generator), the multi_search and get_product_details     *)
(* endpoints, and the document store client they call                      *)
(* (typesense_service.py).  One behaviour serves one HTTP request.         *)
(***************************************************************************)
EXTENDS Integers, Sequences, FiniteSets, TLC

VARIABLES
    docs,           \* ids of the documents held by the "products" collection
    endpoint,       \* the route of the request being served
    pc,             \* position of the request handler
    http,           \* transport-level status of the request: "none", "200", "500"
    body,           \* value returned by a non-chat endpoint
    messages,       \* chat: request.messages, as received
    api_messages,   \* chat: the transcript sent to the model
    response,       \* chat: the first completion: "none", "no_choices", "message"
    content,        \* chat: message.content of the first completion
    tool_calls,     \* chat: message.tool_calls of the first completion
    idx,            \* chat: 1-based position of the for loop over tool_calls
    requests,       \* chat: completion requests issued so far, in order
    invoked,        \* chat: tool handlers invoked so far, in order
    chunks,         \* chat: chunks read from the final completion's stream
    delta,          \* chat: text of the chunk being forwarded
    out,            \* chat: fragments yielded to the response stream
    queries,        \* multi_search: the queries parameter
    results,        \* multi_search: the results list
    product_id,     \* get_product_details: the product_id parameter
    collections,    \* store: the schemas of the collections it holds
    ens_pc,         \* ensure_collection: position, per service instance
    ens_calls,      \* ensure_collection: calls made so far, per instance
    retrieved,      \* ensure_collection: what retrieve() did in the current call
    ens_creates,    \* ensure_collection: create requests sent in the current call
    ens_result      \* ensure_collection: how the last finished call ended

vars == <<docs, endpoint, pc, http, body, messages, api_messages, response, content, tool_calls,
          idx, requests, invoked, chunks, delta, out, queries, results, product_id,
          collections, ens_pc, ens_calls, retrieved, ens_creates, ens_result>>

chatVars == <<messages, api_messages, response, content, tool_calls, idx, requests,
              invoked, chunks, delta, out>>

endpointVars == <<body, queries, results, product_id>>

provisionVars == <<collections, ens_pc, ens_calls, retrieved, ens_creates, ens_result>>

-----------------------------------------------------------------------------
(* Bounds of the model.                                                     *)

MaxToolCalls == 2
MaxChunks == 2
MaxQueries == 2

-----------------------------------------------------------------------------
(* Python values.                                                           *)

\* Python's None, where a string is expected.
None == "<None>"

\* bool(s) of an optional string: None and "" are falsy.
Truthy(s) == s # None /\ s # ""

\* A raised exception / a returned value.
Raised(e) == [raised |-> TRUE, exc |-> e, val |-> None]
Returned(v) == [raised |-> FALSE, exc |-> None, val |-> v]

RECURSIVE JoinQuoted(_)
\* ", ".join(repr(s) for s in seq), the inside of the repr of a list of strings.
JoinQuoted(seq) ==
    IF seq = <<>> THEN ""
    ELSE IF Len(seq) = 1 THEN "'" \o seq[1] \o "'"
    ELSE "'" \o seq[1] \o "', " \o JoinQuoted(Tail(seq))

-----------------------------------------------------------------------------
(* The document store (typesense_service.py).                               *)

ProductIds == {"p1", "p2"}

\* The name field of the products the store may hold.
ProductName(id) == IF id = "p1" THEN "mate" ELSE "yerba"

RECURSIVE SortedIds(_)
\* The ids of a set in ascending order (the store's listing order).
SortedIds(S) ==
    IF S = {} THEN <<>>
    ELSE LET m == CHOOSE x \in S : \A y \in S : (x = "p1") \/ (y # "p1") \/ (x = y)
         IN <<m>> \o SortedIds(S \ {m})

\* The first n elements of a sequence.
Take(seq, n) == SubSeq(seq, 1, IF n < Len(seq) THEN n ELSE Len(seq))

\* The outcome of the vendor client's documents.search: `up` is whether the
\* store answers; a store that does not answer makes the client raise.
search(q, query_by, sort_by, limit, up) ==
    IF ~up THEN Raised("ServiceUnavailable")
    ELSE LET hit == {d \in docs : q = "*" \/ q = ProductName(d)}
         IN Returned([kind |-> "search", q |-> q, query_by |-> query_by,
                      found |-> Cardinality(hit),
                      hits |-> Take(SortedIds(hit), limit)])

\* The outcome of documents[doc_id].retrieve(): the vendor client raises
\* ObjectNotFound for an id the collection does not hold.
get_document(doc_id, up) ==
    IF ~up THEN Raised("ServiceUnavailable")
    ELSE IF doc_id \notin docs THEN Raised("ObjectNotFound")
    ELSE Returned([kind |-> "doc", id |-> doc_id, name |-> ProductName(doc_id)])

-----------------------------------------------------------------------------
(* Tool handlers and dispatch (main.py).                                    *)

\* The argument strings a tool call may carry.
ArgStrings == {"{\"q\": \"*\", \"limit\": 1}", "{\"product_id\": \"p1\"}", "[]", "{\"q\": "}

\* json.loads on the argument strings above: a dict (its keys and values), a
\* non-dict JSON value, or a JSONDecodeError for text that is not JSON.
json_loads(s) ==
    CASE s = "{\"q\": \"*\", \"limit\": 1}" ->
           Returned([kind |-> "dict", keys |-> {"q", "limit"},
                     q |-> "*", limit |-> 1, product_id |-> None])
      [] s = "{\"q\": \"mate\"}" ->
           Returned([kind |-> "dict", keys |-> {"q"},
                     q |-> "mate", limit |-> 0, product_id |-> None])
      [] s = "{\"product_id\": \"p1\"}" ->
           Returned([kind |-> "dict", keys |-> {"product_id"},
                     q |-> None, limit |-> 0, product_id |-> "p1"])
      [] s = "{}" ->
           Returned([kind |-> "dict", keys |-> {},
                     q |-> None, limit |-> 0, product_id |-> None])
      [] s = "[]" ->
           Returned([kind |-> "list", keys |-> {},
                     q |-> None, limit |-> 0, product_id |-> None])
      [] OTHER -> Raised("JSONDecodeError")

\* Whether f(**args) binds: args is a mapping, every key names a parameter
\* and every parameter without a default is given.  Otherwise Python raises
\* TypeError before the function body runs.
Binds(args, params, required) ==
    /\ args.kind = "dict"
    /\ args.keys \subseteq params
    /\ required \subseteq args.keys

\* search_products(q, limit=10)
search_products(args, up) ==
    IF ~Binds(args, {"q", "limit"}, {"q"}) THEN Raised("TypeError")
    ELSE search(args.q, "name,brand,categories,embedding", "_text_match:desc",
                IF "limit" \in args.keys THEN args.limit ELSE 10, up)

\* semantic_search(q, limit=10)
semantic_search(args, up) ==
    IF ~Binds(args, {"q", "limit"}, {"q"}) THEN Raised("TypeError")
    ELSE search(args.q, "embedding,name,brand,categories", "_text_match:desc",
                IF "limit" \in args.keys THEN args.limit ELSE 10, up)

\* get_product_details(product_id)
get_product_details(args, up) ==
    IF ~Binds(args, {"product_id"}, {"product_id"}) THEN Raised("TypeError")
    ELSE get_document(args.product_id, up)

\* The names of the functions declared in TOOLS.
TOOLS == {"search_products", "semantic_search", "get_product_details"}

\* The function names the model may return: the declared tools and one name
\* that is not declared.
FunctionNames == TOOLS \cup {"suggest_offers"}

\* The result assigned in the unknown-function branch.
UnknownFunction == [kind |-> "error", error |-> "Unknown function"]

\* Dispatch with the else branch raising instead of assigning a result.
DispatchUnknownRaises(tc, up) ==
    LET parsed == json_loads(tc.arguments)
    IN IF parsed.raised THEN parsed
       ELSE IF tc.name = "search_products" THEN search_products(parsed.val, up)
       ELSE IF tc.name = "semantic_search" THEN semantic_search(parsed.val, up)
       ELSE IF tc.name = "get_product_details" THEN get_product_details(parsed.val, up)
       ELSE Raised("KeyError")

\* The if/elif chain over function_name, after json.loads of the arguments.
Dispatch(tc, up) ==
    LET parsed == json_loads(tc.arguments)
    IN IF parsed.raised THEN parsed
       ELSE IF tc.name = "search_products" THEN search_products(parsed.val, up)
       ELSE IF tc.name = "semantic_search" THEN semantic_search(parsed.val, up)
       ELSE IF tc.name = "get_product_details" THEN get_product_details(parsed.val, up)
       ELSE Returned(UnknownFunction)

\* Whether processing tc runs the body of a handler: the arguments parse,
\* the name is declared and the call binds.
RunsHandler(tc) ==
    LET parsed == json_loads(tc.arguments)
    IN /\ ~parsed.raised
       /\ tc.name \in TOOLS
       /\ IF tc.name = "get_product_details"
          THEN Binds(parsed.val, {"product_id"}, {"product_id"})
          ELSE Binds(parsed.val, {"q", "limit"}, {"q"})

\* str(result) of a handler's result.
PyStr(r) ==
    CASE r.kind = "error" -> "{'error': '" \o r.error \o "'}"
      [] r.kind = "doc" -> "{'id': '" \o r.id \o "', 'name': '" \o r.name \o "'}"
      [] r.kind = "search" ->
           "{'found': " \o ToString(r.found) \o ", 'hits': [" \o JoinQuoted(r.hits) \o "]}"

-----------------------------------------------------------------------------
(* The chat turn (main.py, chat_generator).                                 *)

system_instruction == "Eres COMERCIA"

SystemMessage == [role |-> "system", content |-> system_instruction]

\* The message list a caller sends: a conversation of three messages (the
\* code never reads the messages, it only forwards them).
CallerMessages ==
    { <<[role |-> "user", content |-> "hola"],
        [role |-> "assistant", content |-> "dime"],
        [role |-> "user", content |-> "busco mate"]>> }

CallIds == {"call_1", "call_2"}

ToolCalls == [id : CallIds, name : FunctionNames, arguments : ArgStrings]

\* The non-empty tool_calls lists a first completion may carry.
ToolCallSeqs == UNION {[1..n -> ToolCalls] : n \in 1..MaxToolCalls}

\* The chunks a stream may deliver: no choices, a delta without content, an
\* empty content, and two texts.
Chunks ==
    { [choices |-> FALSE, content |-> None],
      [choices |-> TRUE, content |-> None],
      [choices |-> TRUE, content |-> ""],
      [choices |-> TRUE, content |-> "Ho"],
      [choices |-> TRUE, content |-> "la"] }

\* api_messages = [{"role": "system", ...}] + messages
InitialTranscript(msgs) == <<SystemMessage>> \o msgs

\* The first completion request: stream=False, tools=TOOLS.
FirstRequest(msgs) == [stream |-> FALSE, tools |-> TOOLS, messages |-> msgs]

\* The final request with the tools offered again.
FinalRequestWithTools(msgs) == [stream |-> TRUE, tools |-> TOOLS, messages |-> msgs]

\* The final completion request: stream=True, no tools parameter.
FinalRequest(msgs) == [stream |-> TRUE, tools |-> {}, messages |-> msgs]

\* The assistant message appended when the first completion has tool calls.
AssistantMessage(c, tcs) ==
    [role |-> "assistant", content |-> c,
     tool_calls |-> [k \in 1..Len(tcs) |->
                       [id |-> tcs[k].id, type |-> "function",
                        function |-> [name |-> tcs[k].name,
                                      arguments |-> tcs[k].arguments]]]]

\* The tool message carrying the id of the first tool call of the turn.
ToolMessageFirstId(tc, result) ==
    [role |-> "tool", tool_call_id |-> tool_calls[1].id, content |-> PyStr(result)]

\* The tool message appended for one tool call.
ToolMessage(tc, result) ==
    [role |-> "tool", tool_call_id |-> tc.id, content |-> PyStr(result)]

\* The fragment yielded by the except clause.
ErrorFragment(e) == "Error: " \o e

\* The exception leaving the generator, as if no except clause caught it.
RaiseEscapes(e) ==
    /\ out' = out
    /\ pc' = "Raised"
    /\ http' = "500"

\* The except clause replacing what was already yielded by the error fragment.
RaiseRetracts(e) ==
    /\ out' = <<ErrorFragment(e)>>
    /\ pc' = "Failed"
    /\ http' = http

\* An exception raised inside the try block: the except clause yields the
\* error fragment and the generator ends.
Raise(e) ==
    /\ out' = Append(out, ErrorFragment(e))
    /\ pc' = "Failed"
    /\ http' = http

\* The content yielded without the emptiness test.
TextUnchecked(c) == c

\* The fragment yielded when the message has no tool calls.
TextOrFallback(c) == IF Truthy(c) THEN c ELSE "Sin respuesta del modelo."

\* chat_endpoint hands chat_generator(request.messages) to StreamingResponse;
\* the generator builds the transcript and issues the first completion request.
ChatStart ==
    /\ pc = "idle"
    /\ \E msgs \in CallerMessages :
         /\ messages' = msgs
         /\ api_messages' = InitialTranscript(msgs)
         /\ requests' = <<FirstRequest(InitialTranscript(msgs))>>
    /\ endpoint' = "chat"
    /\ pc' = "AwaitingFirstCompletion"
    /\ http' = "200"
    /\ UNCHANGED <<docs, response, content, tool_calls, idx, invoked, chunks, delta,
                   out>>
    /\ UNCHANGED endpointVars
    /\ UNCHANGED provisionVars

\* The first completion call raises.
FirstCompletionFails ==
    /\ pc = "AwaitingFirstCompletion"
    /\ Raise("APIConnectionError")
    /\ UNCHANGED <<docs, endpoint, messages, api_messages, response, content, tool_calls,
                   idx, requests, invoked, chunks, delta>>
    /\ UNCHANGED endpointVars
    /\ UNCHANGED provisionVars

\* The first completion returns no choices.
FirstNoChoices ==
    /\ pc = "AwaitingFirstCompletion"
    /\ out' = Append(out, "No se recibieron respuestas del modelo.")
    /\ response' = "no_choices"
    /\ pc' = "Done"
    /\ UNCHANGED <<docs, endpoint, http, messages, api_messages, content, tool_calls,
                   idx, requests, invoked, chunks, delta>>
    /\ UNCHANGED endpointVars
    /\ UNCHANGED provisionVars

\* The first completion returns a message without tool calls.
FirstNoToolCalls ==
    /\ pc = "AwaitingFirstCompletion"
    /\ \E c \in {None, "", "Hola"} :
         /\ content' = c
         /\ out' = Append(out, TextOrFallback(c))
    /\ response' = "message"
    /\ pc' = "Done"
    /\ UNCHANGED <<docs, endpoint, http, messages, api_messages, tool_calls, idx,
                   requests, invoked, chunks, delta>>
    /\ UNCHANGED endpointVars
    /\ UNCHANGED provisionVars

\* The first completion returns a message with tool calls (its content is
\* then null, as the gateway sends it): the assistant message is appended
\* and the for loop starts.
FirstHasToolCalls ==
    /\ pc = "AwaitingFirstCompletion"
    /\ \E c \in {None}, tcs \in ToolCallSeqs :
         /\ content' = c
         /\ tool_calls' = tcs
         /\ api_messages' = Append(api_messages, AssistantMessage(c, tcs))
    /\ response' = "message"
    /\ idx' = 1
    /\ pc' = "ExecutingTools"
    /\ UNCHANGED <<docs, endpoint, http, messages, requests, invoked, chunks, delta, out>>
    /\ UNCHANGED endpointVars
    /\ UNCHANGED provisionVars

\* One iteration of the for loop over message.tool_calls.
ExecuteToolCall ==
    /\ pc = "ExecutingTools"
    /\ idx <= Len(tool_calls)
    /\ \E up \in BOOLEAN :
         LET tc == tool_calls[idx]
             r == Dispatch(tc, up)
         IN /\ invoked' = IF RunsHandler(tc) THEN Append(invoked, tc.name) ELSE invoked
            /\ IF r.raised
               THEN /\ Raise(r.exc)
                    /\ UNCHANGED <<api_messages, idx>>
               ELSE /\ api_messages' = Append(api_messages, ToolMessage(tc, r.val))
                    /\ idx' = idx + 1
                    /\ UNCHANGED <<pc, http, out>>
    /\ UNCHANGED <<docs, endpoint, messages, response, content, tool_calls, requests,
                   chunks, delta>>
    /\ UNCHANGED endpointVars
    /\ UNCHANGED provisionVars

\* After the loop: the final completion request is issued over the transcript.
IssueFinalCompletion ==
    /\ pc = "ExecutingTools"
    /\ idx > Len(tool_calls)
    /\ requests' = Append(requests, FinalRequest(api_messages))
    /\ pc' = "AwaitingFinalCompletion"
    /\ UNCHANGED <<docs, endpoint, http, messages, api_messages, response, content,
                   tool_calls, idx, invoked, chunks, delta, out>>
    /\ UNCHANGED endpointVars
    /\ UNCHANGED provisionVars

\* The final completion call raises.
FinalCompletionFails ==
    /\ pc = "AwaitingFinalCompletion"
    /\ Raise("APIConnectionError")
    /\ UNCHANGED <<docs, endpoint, messages, api_messages, response, content, tool_calls,
                   idx, requests, invoked, chunks, delta>>
    /\ UNCHANGED endpointVars
    /\ UNCHANGED provisionVars

\* The final completion call returns the stream.
FinalCompletionStreams ==
    /\ pc = "AwaitingFinalCompletion"
    /\ pc' = "Streaming"
    /\ UNCHANGED <<docs, endpoint, http, messages, api_messages, response, content, tool_calls,
                   idx, requests, invoked, chunks, delta, out>>
    /\ UNCHANGED endpointVars
    /\ UNCHANGED provisionVars

\* Whether a chunk carries text to forward.
HasText(chunk) == chunk.choices /\ Truthy(chunk.content)

\* async for: the next chunk arrives; a chunk with text goes to the yield.
ReadChunk ==
    /\ pc = "Streaming"
    /\ Len(chunks) < MaxChunks
    /\ \E chunk \in Chunks :
         /\ chunks' = Append(chunks, chunk)
         /\ IF HasText(chunk)
            THEN delta' = chunk.content /\ pc' = "Yielding"
            ELSE delta' = delta /\ pc' = "Streaming"
    /\ UNCHANGED <<docs, endpoint, http, messages, api_messages, response, content, tool_calls,
                   idx, requests, invoked, out>>
    /\ UNCHANGED endpointVars
    /\ UNCHANGED provisionVars

\* The fragment put in front of those already yielded.
YieldDeltaPrepends ==
    /\ pc = "Yielding"
    /\ out' = <<delta>> \o out
    /\ delta' = None
    /\ pc' = "Streaming"
    /\ UNCHANGED <<docs, endpoint, http, messages, api_messages, response, content,
                   tool_calls, idx, requests, invoked, chunks>>
    /\ UNCHANGED endpointVars
    /\ UNCHANGED provisionVars

\* yield delta.content
YieldDelta ==
    /\ pc = "Yielding"
    /\ out' = Append(out, delta)
    /\ delta' = None
    /\ pc' = "Streaming"
    /\ UNCHANGED <<docs, endpoint, http, messages, api_messages, response, content, tool_calls,
                   idx, requests, invoked, chunks>>
    /\ UNCHANGED endpointVars
    /\ UNCHANGED provisionVars

\* async for: the stream is exhausted.
StreamEnds ==
    /\ pc = "Streaming"
    /\ pc' = "Done"
    /\ UNCHANGED <<docs, endpoint, http, messages, api_messages, response, content, tool_calls,
                   idx, requests, invoked, chunks, delta, out>>
    /\ UNCHANGED endpointVars
    /\ UNCHANGED provisionVars

\* async for: reading the next chunk raises.
StreamErrors ==
    /\ pc = "Streaming"
    /\ Raise("APIError")
    /\ UNCHANGED <<docs, endpoint, messages, api_messages, response, content, tool_calls,
                   idx, requests, invoked, chunks, delta>>
    /\ UNCHANGED endpointVars
    /\ UNCHANGED provisionVars

-----------------------------------------------------------------------------
(* The multi_search and get_product_details endpoints (main.py).            *)

\* The query strings a caller may send.
Queries == {"mate", "*"}

QuerySeqs == UNION {[1..n -> Queries] : n \in 0..MaxQueries}

NoBody == [kind |-> "none"]

\* An exception leaving an endpoint function: nothing in the function
\* catches it, so it reaches the transport layer.
Propagate(e) ==
    /\ http' = "500"
    /\ body' = [kind |-> "exception", exc |-> e]
    /\ pc' = "Raised"

\* An endpoint function returns v.
Return(v) ==
    /\ http' = "200"
    /\ body' = v
    /\ pc' = "Returned"

\* The dict built from the product_id request parameter.
ProductIdArgs(id) ==
    [kind |-> "dict", keys |-> {"product_id"}, q |-> None, limit |-> 0,
     product_id |-> id]

\* POST /api/multi_search: results = []
MultiSearchStart ==
    /\ pc = "idle"
    /\ \E qs \in QuerySeqs : queries' = qs
    /\ results' = <<>>
    /\ endpoint' = "multi_search"
    /\ pc' = "multi_search"
    /\ UNCHANGED <<docs, http, body, product_id>>
    /\ UNCHANGED chatVars
    /\ UNCHANGED provisionVars

\* One iteration of the for loop over queries.
MultiSearchQuery ==
    /\ pc = "multi_search"
    /\ Len(results) < Len(queries)
    /\ \E up \in BOOLEAN :
         LET query == queries[Len(results) + 1]
             r == search(query, "embedding,name,brand,categories",
                         "_text_match:desc", 5, up)
         IN IF r.raised
            THEN Propagate(r.exc) /\ UNCHANGED results
            ELSE /\ results' = Append(results, [query |-> query, results |-> r.val])
                 /\ UNCHANGED <<pc, http, body>>
    /\ UNCHANGED <<docs, endpoint, queries, product_id>>
    /\ UNCHANGED chatVars
    /\ UNCHANGED provisionVars

\* return {"searches": results}
MultiSearchReturn ==
    /\ pc = "multi_search"
    /\ Len(results) = Len(queries)
    /\ Return([kind |-> "searches", searches |-> results])
    /\ UNCHANGED <<docs, endpoint, queries, results, product_id>>
    /\ UNCHANGED chatVars
    /\ UNCHANGED provisionVars

\* POST /api/get_product_details
GetProductDetailsStart ==
    /\ pc = "idle"
    /\ \E id \in ProductIds : product_id' = id
    /\ endpoint' = "get_product_details"
    /\ pc' = "get_product_details"
    /\ UNCHANGED <<docs, http, body, queries, results>>
    /\ UNCHANGED chatVars
    /\ UNCHANGED provisionVars

\* return ts_service.get_document("products", product_id)
GetProductDetails ==
    /\ pc = "get_product_details"
    /\ \E up \in BOOLEAN :
         LET r == get_product_details(ProductIdArgs(product_id), up)
         IN IF r.raised THEN Propagate(r.exc) ELSE Return(r.val)
    /\ UNCHANGED <<docs, endpoint, queries, results, product_id>>
    /\ UNCHANGED chatVars
    /\ UNCHANGED provisionVars

-----------------------------------------------------------------------------
(* Collection provisioning (typesense_service.py).                          *)

MaxEnsureCalls == 2

\* The service instances constructed against the same store (one per
\* server process).
Instances == {1, 2}

\* default_product_schema()
default_product_schema ==
    [name |-> "products",
     fields |-> <<"id", "name", "slug", "image", "brand", "price", "categories",
                  "updated_at", "embedding">>,
     default_sorting_field |-> "price"]

\* A products collection made by an earlier deployment, without the
\* embedding field.
EarlierSchema ==
    [name |-> "products",
     fields |-> <<"id", "name", "slug", "image", "brand", "price", "categories",
                  "updated_at">>,
     default_sorting_field |-> "price"]

\* The outcome of client.collections[name].retrieve(): the vendor client
\* raises ObjectNotFound for a name the store does not hold.
retrieve_collection(name, up) ==
    IF ~up THEN Raised("ServiceUnavailable")
    ELSE IF \A c \in collections : c.name # name THEN Raised("ObjectNotFound")
    ELSE Returned(CHOOSE c \in collections : c.name = name)

\* The outcome of client.collections.create(schema): the store refuses a
\* name it already holds; val is the store's collections afterwards.
create_collection(schema, up) ==
    IF ~up THEN Raised("ServiceUnavailable")
    ELSE IF \E c \in collections : c.name = schema.name
         THEN Raised("ObjectAlreadyExists")
    ELSE Returned(collections \cup {schema})

\* The try/except around retrieve() with the found case sent to create.
AfterRetrieveAlwaysCreates(r) ==
    IF ~r.raised THEN "create"
    ELSE IF r.exc = "ObjectNotFound" THEN "create"
    ELSE "raise"

\* The try/except around retrieve(): no exception, ObjectNotFound, or any
\* other exception (logged and re-raised).
AfterRetrieve(r) ==
    IF ~r.raised THEN "exists"
    ELSE IF r.exc = "ObjectNotFound" THEN "create"
    ELSE "raise"

\* TypesenseService.__init__ calls ensure_collection("products", schema).
EnsureCollection(i) ==
    /\ ens_pc[i] = "idle"
    /\ ens_calls[i] < MaxEnsureCalls
    /\ ens_calls' = [ens_calls EXCEPT ![i] = @ + 1]
    /\ ens_pc' = [ens_pc EXCEPT ![i] = "retrieve"]
    /\ retrieved' = [retrieved EXCEPT ![i] = "none"]
    /\ ens_creates' = [ens_creates EXCEPT ![i] = 0]
    /\ UNCHANGED <<docs, endpoint, pc, http, collections, ens_result>>
    /\ UNCHANGED chatVars
    /\ UNCHANGED endpointVars

\* self.client.collections[collection_name].retrieve() and the except
\* clauses that follow it.
EnsureRetrieve(i) ==
    /\ ens_pc[i] = "retrieve"
    /\ \E up \in BOOLEAN :
         LET r == retrieve_collection(default_product_schema.name, up)
             branch == AfterRetrieve(r)
         IN /\ retrieved' = [retrieved EXCEPT ![i] =
                               IF ~r.raised THEN "found"
                               ELSE IF r.exc = "ObjectNotFound" THEN "not_found"
                               ELSE "error"]
            /\ ens_pc' = [ens_pc EXCEPT ![i] =
                            IF branch = "create" THEN "create" ELSE "idle"]
            /\ ens_result' = [ens_result EXCEPT ![i] =
                                IF branch = "exists" THEN "exists"
                                ELSE IF branch = "raise" THEN r.exc
                                ELSE @]
    /\ UNCHANGED <<docs, endpoint, pc, http, collections, ens_calls, ens_creates>>
    /\ UNCHANGED chatVars
    /\ UNCHANGED endpointVars

\* self.client.collections.create(schema), inside except ObjectNotFound.
EnsureCreate(i) ==
    /\ ens_pc[i] = "create"
    /\ ens_creates' = [ens_creates EXCEPT ![i] = @ + 1]
    /\ ens_pc' = [ens_pc EXCEPT ![i] = "idle"]
    /\ \E up \in BOOLEAN :
         LET r == create_collection(default_product_schema, up)
         IN IF r.raised
            THEN /\ ens_result' = [ens_result EXCEPT ![i] = r.exc]
                 /\ UNCHANGED collections
            ELSE /\ ens_result' = [ens_result EXCEPT ![i] = "created"]
                 /\ collections' = r.val
    /\ UNCHANGED <<docs, endpoint, pc, http, ens_calls, retrieved>>
    /\ UNCHANGED chatVars
    /\ UNCHANGED endpointVars

-----------------------------------------------------------------------------
(* The specification.                                                       *)

\* No request is being served.
RequestIdle ==
    /\ endpoint = "none"
    /\ pc = "idle"
    /\ http = "none"
    /\ body = NoBody
    /\ messages = <<>>
    /\ api_messages = <<>>
    /\ response = "none"
    /\ content = None
    /\ tool_calls = <<>>
    /\ idx = 0
    /\ requests = <<>>
    /\ invoked = <<>>
    /\ chunks = <<>>
    /\ delta = None
    /\ out = <<>>
    /\ queries = <<>>
    /\ results = <<>>
    /\ product_id = None

\* The server after start-up: ts_service was constructed, so the products
\* collection exists and one ensure_collection call has returned.
Init ==
    /\ docs \in {{"p2"}, {"p1", "p2"}}
    /\ RequestIdle
    /\ collections = {default_product_schema}
    /\ ens_pc = [i \in Instances |-> "idle"]
    /\ ens_calls = [i \in Instances |-> IF i = 1 THEN 1 ELSE 0]
    /\ retrieved = [i \in Instances |-> IF i = 1 THEN "found" ELSE "none"]
    /\ ens_creates = [i \in Instances |-> 0]
    /\ ens_result = [i \in Instances |-> IF i = 1 THEN "exists" ELSE "none"]

\* The store before any service instance is constructed: no products
\* collection, or one that is already there.
InitProvision ==
    /\ collections \in {{}, {default_product_schema}, {EarlierSchema}}
    /\ docs = IF collections = {} THEN {} ELSE {"p2"}
    /\ RequestIdle
    /\ ens_pc = [i \in Instances |-> "idle"]
    /\ ens_calls = [i \in Instances |-> 0]
    /\ retrieved = [i \in Instances |-> "none"]
    /\ ens_creates = [i \in Instances |-> 0]
    /\ ens_result = [i \in Instances |-> "none"]

Next ==
    \/ ChatStart
    \/ FirstCompletionFails
    \/ FirstNoChoices
    \/ FirstNoToolCalls
    \/ FirstHasToolCalls
    \/ ExecuteToolCall
    \/ IssueFinalCompletion
    \/ FinalCompletionFails
    \/ FinalCompletionStreams
    \/ ReadChunk
    \/ YieldDelta
    \/ StreamEnds
    \/ StreamErrors
    \/ MultiSearchStart
    \/ MultiSearchQuery
    \/ MultiSearchReturn
    \/ GetProductDetailsStart
    \/ GetProductDetails

Spec == Init /\ [][Next]_vars

\* Start-up: the service instances provision the collection.
NextProvision ==
    \/ \E i \in Instances : EnsureCollection(i)
    \/ \E i \in Instances : EnsureRetrieve(i)
    \/ \E i \in Instances : EnsureCreate(i)

SpecProvision == InitProvision /\ [][NextProvision]_vars

-----------------------------------------------------------------------------
(* Properties of the chat turn.                                             *)

\* The error fragments the except clause can yield.
ErrorMarkers ==
    {"Error: " \o e : e \in {"APIConnectionError", "APIError", "JSONDecodeError",
                             "TypeError", "ObjectNotFound", "ServiceUnavailable"}}

\* The argument strings that are JSON texts.
JsonTexts == {"{\"q\": \"*\", \"limit\": 1}", "{\"product_id\": \"p1\"}", "[]"}

\* The tool-role messages of a transcript, in order.
ToolMessagesOf(t) == SelectSeq(t, LAMBDA m : m.role = "tool")

RECURSIVE TextsOf(_)
\* The non-empty text contents of a sequence of chunks, in order.
TextsOf(cs) ==
    IF cs = <<>> THEN <<>>
    ELSE LET c == cs[Len(cs)]
             front == TextsOf(SubSeq(cs, 1, Len(cs) - 1))
         IN IF c.choices /\ c.content # None /\ c.content # ""
            THEN Append(front, c.content)
            ELSE front

\* C1: when the final completion request is issued after a first response
\* with N >= 1 tool calls, its transcript is the system instruction, the
\* caller's messages in the order received, one assistant message echoing
\* the N tool calls, then exactly N tool messages, the k-th carrying the id
\* of the k-th tool call.
C1_TranscriptAtFinalRequest ==
    Len(requests) = 2 =>
        LET t == requests[2].messages
            M == Len(messages)
            N == Len(tool_calls)
        IN /\ N >= 1
           /\ Len(t) = M + 2 + N
           /\ t[1] = [role |-> "system", content |-> system_instruction]
           /\ \A i \in 1..M : t[1 + i] = messages[i]
           /\ t[M + 2].role = "assistant"
           /\ Len(t[M + 2].tool_calls) = N
           /\ \A k \in 1..N :
                /\ t[M + 2].tool_calls[k].id = tool_calls[k].id
                /\ t[M + 2].tool_calls[k].function.name = tool_calls[k].name
                /\ t[M + 2].tool_calls[k].function.arguments = tool_calls[k].arguments
                /\ t[M + 2 + k].role = "tool"
                /\ t[M + 2 + k].tool_call_id = tool_calls[k].id

\* C1 witness: a final request after two tool calls with different ids and
\* three caller messages.
C1_Witness ==
    /\ Len(requests) = 2
    /\ Len(tool_calls) = 2
    /\ tool_calls[1].id # tool_calls[2].id
    /\ Len(messages) = 3

\* C2: a failure while processing one tool call never aborts the loop: a
\* finished turn whose first response carried tool calls has one tool
\* message per tool call and has issued the final completion request.
C2_ToolFailureNeverAbortsLoop ==
    (endpoint = "chat" /\ pc \in {"Done", "Failed"} /\ tool_calls # <<>>) =>
        /\ Len(ToolMessagesOf(api_messages)) = Len(tool_calls)
        /\ Len(requests) = 2

\* C3: no failure of a chat turn reaches the transport layer: the turn is
\* never in the raised state, its transport status stays 200, a failed turn
\* has an error fragment as its last output, and a turn that is neither
\* Done nor Failed can still take a step.
C3_NoExceptionEscapes ==
    endpoint = "chat" =>
        /\ pc # "Raised"
        /\ http = "200"
        /\ pc = "Failed" => (out # <<>> /\ out[Len(out)] \in ErrorMarkers)
        /\ pc \notin {"Done", "Failed"} => ENABLED Next

\* C3 witness: a turn failed in the tool loop on arguments that are not
\* JSON, and yielded the error fragment.
C3_Witness ==
    /\ endpoint = "chat"
    /\ pc = "Failed"
    /\ tool_calls # <<>>
    /\ Len(requests) = 1
    /\ out = <<"Error: JSONDecodeError">>

\* C4: a first message without tool calls yields exactly one fragment, the
\* content when non-empty and the fallback string otherwise, runs no tool
\* and issues no second completion request.
C4_NoToolCallsSingleFragment ==
    (response = "message" /\ tool_calls = <<>>) =>
        /\ pc = "Done"
        /\ Len(out) = 1
        /\ out[1] = IF content \in {None, ""} THEN "Sin respuesta del modelo."
                    ELSE content
        /\ invoked = <<>>
        /\ Len(requests) = 1
        /\ ToolMessagesOf(api_messages) = <<>>

\* C4 witness: a message with empty content and no tool calls was answered.
C4_Witness ==
    /\ response = "message"
    /\ tool_calls = <<>>
    /\ content = ""
    /\ out = <<"Sin respuesta del modelo.">>

\* C5 (state part): at most two completion requests; the first is
\* non-streaming with the tool schema, the second streaming without it and
\* issued only after a first response with tool calls, all of them processed.
C5_RequestsShape ==
    /\ Len(requests) <= 2
    /\ Len(requests) >= 1 => (~requests[1].stream /\ requests[1].tools = TOOLS)
    /\ Len(requests) = 2 =>
         /\ requests[2].stream
         /\ requests[2].tools = {}
         /\ Len(tool_calls) >= 1
         /\ idx = Len(tool_calls) + 1
         /\ Len(ToolMessagesOf(requests[2].messages)) = Len(tool_calls)

\* C5: one round of tool use and no retry: the requests have the shape
\* above, no step after the second request invokes a tool handler or
\* changes the transcript, and no step issues a request again.
C5_SingleRoundNoRetry ==
    /\ []C5_RequestsShape
    /\ [][Len(requests) = 2 =>
            (invoked' = invoked /\ requests' = requests
             /\ api_messages' = api_messages)]_vars

\* C5 witness: the second request was issued after two handlers ran.
C5_Witness ==
    /\ Len(requests) = 2
    /\ Len(invoked) = 2
    /\ pc = "Done"

\* C6: while streaming, the fragments yielded are the non-empty text
\* contents of the chunks read, in arrival order: nothing is pending when
\* the next chunk is read, and the fragment being forwarded is the text of
\* the last chunk read.
C6_StreamForwardsInOrder ==
    /\ pc = "Streaming" => out = TextsOf(chunks)
    /\ pc = "Yielding" => Append(out, delta) = TextsOf(chunks)
    /\ (pc = "Done" /\ Len(requests) = 2) => out = TextsOf(chunks)

\* C6 witness: two different texts and nothing else were forwarded.
C6_Witness ==
    /\ pc = "Done"
    /\ Len(chunks) >= 2
    /\ out = <<"Ho", "la">>

\* C7: a turn that fails after the final request has yielded the texts of
\* the chunks read before the failure, then one error fragment, and nothing
\* else.
C7_ErrorAfterPrefix ==
    (pc = "Failed" /\ Len(requests) = 2) =>
        /\ Len(out) = Len(TextsOf(chunks)) + 1
        /\ SubSeq(out, 1, Len(out) - 1) = TextsOf(chunks)
        /\ out[Len(out)] \in ErrorMarkers
        /\ ~ENABLED Next

\* C7 witness: the stream failed after one fragment was forwarded.
C7_Witness ==
    /\ pc = "Failed"
    /\ out = <<"Ho", "Error: APIError">>

\* Whether the k-th tool call names no declared tool and carries JSON text.
UnknownParseable(k) ==
    /\ tool_calls[k].name \notin {"search_products", "semantic_search",
                                  "get_product_details"}
    /\ tool_calls[k].arguments \in JsonTexts

\* C8: a tool call with an undeclared name and parseable arguments gets a
\* tool message with the error content and its own id, runs no handler and
\* is never the call at which the turn fails; a turn all of whose tool
\* calls are of that kind issues the final completion request.
C8_UnknownToolIsErrorResult ==
    (endpoint = "chat" /\ tool_calls # <<>>) =>
        LET M == Len(messages)
            N == Len(tool_calls)
        IN /\ \A k \in 1..N : UnknownParseable(k) =>
                /\ k < idx =>
                     api_messages[M + 2 + k] =
                         [role |-> "tool", tool_call_id |-> tool_calls[k].id,
                          content |-> "{'error': 'Unknown function'}"]
                /\ ~(pc = "Failed" /\ idx = k)
           /\ Len(invoked) <=
                Cardinality({k \in 1..N : k <= idx /\ ~UnknownParseable(k)})
           /\ ((\A k \in 1..N : UnknownParseable(k)) /\ pc \in {"Done", "Failed"})
                => (Len(requests) = 2 /\ invoked = <<>>)

\* C8 witness: an undeclared call was answered with the error message and
\* the declared call after it ran.
C8_Witness ==
    /\ endpoint = "chat"
    /\ Len(tool_calls) = 2
    /\ UnknownParseable(1)
    /\ ~UnknownParseable(2)
    /\ Len(requests) = 2
    /\ Len(invoked) = 1

-----------------------------------------------------------------------------
(* Properties of the endpoints.                                             *)

\* C9: multi_search over K queries returns a searches list of K elements,
\* the i-th for the i-th query, also when the search for a query errors.
C9_MultiSearchReturnsAll ==
    (endpoint = "multi_search" /\ pc \in {"Returned", "Raised"}) =>
        /\ http = "200"
        /\ body.kind = "searches"
        /\ Len(body.searches) = Len(queries)
        /\ \A i \in 1..Len(queries) : body.searches[i].query = queries[i]

\* Whether the store answered the endpoint's call (it was reachable).
StoreAnswered == ~(body.kind = "exception" /\ body.exc = "ServiceUnavailable")

\* C10: get_product_details on an id the store does not hold (the store
\* answering not-found) returns a structured error object; the not-found
\* failure does not leave the endpoint as a transport-level failure.
C10_NotFoundIsStructuredError ==
    (endpoint = "get_product_details" /\ pc \in {"Returned", "Raised"}
     /\ product_id \notin docs /\ StoreAnswered) =>
        /\ http = "200"
        /\ body.kind = "error"

-----------------------------------------------------------------------------
(* Properties of collection provisioning.                                   *)

\* The collections of a store that are named products.
ProductsIn(cs) == {c \in cs : c.name = "products"}

\* C11 (state part): the store never holds the collection twice; a call
\* sends at most one create, none when retrieve found the collection or
\* failed otherwise, exactly one when retrieve reported not-found; a
\* retrieve failure other than not-found ends the call with that failure;
\* and after a call that returned, the store holds the collection.
C11_CallShape ==
    /\ Cardinality(ProductsIn(collections)) <= 1
    /\ \A i \in Instances :
         /\ ens_creates[i] <= 1
         /\ retrieved[i] \in {"found", "error"} =>
              (ens_creates[i] = 0 /\ ens_pc[i] = "idle")
         /\ (retrieved[i] = "not_found" /\ ens_pc[i] = "idle") => ens_creates[i] = 1
         /\ retrieved[i] = "found" => ens_result[i] = "exists"
         /\ retrieved[i] = "error" => ens_result[i] = "ServiceUnavailable"
         /\ ens_result[i] \in {"exists", "created"} =>
              Cardinality(ProductsIn(collections)) = 1

\* C11: provisioning is idempotent: calls have the shape above, no step
\* changes a store that already holds the collection, and the collection
\* appears only as the declared schema.
C11_ProvisioningIdempotent ==
    /\ []C11_CallShape
    /\ [][/\ ProductsIn(collections) # {} =>
               (collections' = collections /\ docs' = docs)
          /\ (ProductsIn(collections) = {} /\ ProductsIn(collections') # {}) =>
               collections' = collections \cup {default_product_schema}]_vars

\* C11 witness: one instance created the collection and the other was then
\* constructed twice, finding it each time.
C11_Witness ==
    /\ collections = {default_product_schema}
    /\ ens_result[2] = "created"
    /\ ens_calls[1] = 2
    /\ ens_pc[1] = "idle"
    /\ ens_result[1] = "exists"

====
